---- MODULE Spec2Model ----
(***************************************************************************)
(* Model of the native-library bridge of the arcSign dashboard:            *)
(*   ffi/queue.rs    QueueMetrics, WalletCommand, WalletQueue, worker_task *)
(*   ffi/bindings.rs WalletLibrary::get_version / call_ffi_with_params     *)
(* Producers run the async submit methods step by step (record_enqueue,    *)
(* send, await reply); one worker thread runs worker_task, and inside it   *)
(* the bridge call is split at its memory events (foreign call, copy,      *)
(* GoFree, decode).                                                        *)
(***************************************************************************)
EXTENDS Integers, Sequences, FiniteSets, TLC

\* Number of operations the producers create in one run.
MaxOps == 2

\* AtomicUsize::MAX as far as the model's integers go: the value fetch_sub
\* wraps to when current_depth is 0.
UsizeMax == 2147483647

\* Concurrent callers of the async methods of WalletQueue.
Producers == {"p1", "p2"}

OpIds == 1..MaxOps

\* WalletCommand variants taken into the model, with the params_json the
\* callers pass.  "a\0b" stands for a string with an embedded NUL byte.
Commands ==
  { [kind |-> "GetVersion",   params_json |-> ""],
    [kind |-> "CreateWallet", params_json |-> "{}"],
    [kind |-> "UnlockWallet", params_json |-> "a\\0b"] }

\* The exported symbol the worker's match arm calls for a command kind.
LibrarySymbol(kind) ==
  CASE kind = "GetVersion"   -> "GetVersion"
    [] kind = "CreateWallet" -> "CreateWallet"
    [] kind = "UnlockWallet" -> "UnlockWallet"

\* CString::new fails exactly when the string holds a NUL byte.
HasInteriorNul(s) == s = "a\\0b"

\* A conversion that drops the check for NUL bytes.
CStringNew_Unchecked(s) == [ok |-> TRUE, bytes |-> s]

\* CString::new(params_json): Err when the string holds a NUL byte, else the
\* NUL-terminated copy of it.
CStringNew(s) ==
  IF HasInteriorNul(s) THEN [ok |-> FALSE, bytes |-> ""] ELSE [ok |-> TRUE, bytes |-> s]

\* What a foreign function can hand back: a null pointer, or a buffer whose
\* bytes are not UTF-8, or one of these texts.
NullPtr == [null |-> TRUE, utf8 |-> FALSE, text |-> ""]

InvalidUtf8Buf == [null |-> FALSE, utf8 |-> FALSE, text |-> ""]

Texts ==
  { "not json",
    "{\"success\":true,\"data\":{\"x\":1}}",
    "{\"success\":true}",
    "{\"success\":false,\"error\":{\"code\":\"FOO\",\"message\":\"bar\"}}",
    "{\"success\":false}" }

ForeignResults ==
  {NullPtr, InvalidUtf8Buf} \cup { [null |-> FALSE, utf8 |-> TRUE, text |-> t] : t \in Texts }

\* Further texts a library can return: data null or falsy, both data and
\* error present, error null or empty, a field of the wrong shape, a missing
\* success flag.
EnvelopeTexts ==
  Texts \cup
  { "{\"success\":true,\"data\":null}",
    "{\"success\":true,\"data\":0}",
    "{\"success\":true,\"data\":\"\"}",
    "{\"success\":true,\"data\":{\"x\":1},\"error\":{\"code\":\"FOO\",\"message\":\"bar\"}}",
    "{\"success\":true,\"error\":{\"code\":\"FOO\",\"message\":\"bar\"}}",
    "{\"success\":false,\"error\":null}",
    "{\"success\":false,\"data\":{\"x\":1}}",
    "{\"success\":false,\"data\":{\"x\":1},\"error\":{\"code\":\"FOO\",\"message\":\"bar\"}}",
    "{\"success\":false,\"error\":{\"code\":\"\",\"message\":\"\"}}",
    "{\"success\":false,\"error\":{\"code\":\"FOO\"}}",
    "{\"data\":{\"x\":1}}",
    "{\"success\":\"yes\",\"data\":{\"x\":1}}" }

DirectResults ==
  {NullPtr, InvalidUtf8Buf} \cup { [null |-> FALSE, utf8 |-> TRUE, text |-> t] : t \in EnvelopeTexts }

\* serde_json::from_str::<FFIResponse<Value>> on the texts above: success is
\* required and must be a bool, data and error default to None and null reads
\* as None, an error object needs both code and message.
FromStr(text) ==
  CASE text = "{\"success\":true,\"data\":{\"x\":1}}" ->
         [parsed |-> TRUE, success |-> TRUE, data |-> <<"{\"x\":1}">>, error |-> <<>>]
    [] text = "{\"success\":true}" ->
         [parsed |-> TRUE, success |-> TRUE, data |-> <<>>, error |-> <<>>]
    [] text = "{\"success\":false,\"error\":{\"code\":\"FOO\",\"message\":\"bar\"}}" ->
         [parsed |-> TRUE, success |-> FALSE, data |-> <<>>,
          error |-> << [code |-> "FOO", message |-> "bar"] >>]
    [] text = "{\"success\":false}" ->
         [parsed |-> TRUE, success |-> FALSE, data |-> <<>>, error |-> <<>>]
    [] text = "{\"success\":true,\"data\":null}" ->
         [parsed |-> TRUE, success |-> TRUE, data |-> <<>>, error |-> <<>>]
    [] text = "{\"success\":true,\"data\":0}" ->
         [parsed |-> TRUE, success |-> TRUE, data |-> <<"0">>, error |-> <<>>]
    [] text = "{\"success\":true,\"data\":\"\"}" ->
         [parsed |-> TRUE, success |-> TRUE, data |-> <<"\"\"">>, error |-> <<>>]
    [] text = "{\"success\":true,\"data\":{\"x\":1},\"error\":{\"code\":\"FOO\",\"message\":\"bar\"}}" ->
         [parsed |-> TRUE, success |-> TRUE, data |-> <<"{\"x\":1}">>,
          error |-> << [code |-> "FOO", message |-> "bar"] >>]
    [] text = "{\"success\":true,\"error\":{\"code\":\"FOO\",\"message\":\"bar\"}}" ->
         [parsed |-> TRUE, success |-> TRUE, data |-> <<>>,
          error |-> << [code |-> "FOO", message |-> "bar"] >>]
    [] text = "{\"success\":false,\"error\":null}" ->
         [parsed |-> TRUE, success |-> FALSE, data |-> <<>>, error |-> <<>>]
    [] text = "{\"success\":false,\"data\":{\"x\":1}}" ->
         [parsed |-> TRUE, success |-> FALSE, data |-> <<"{\"x\":1}">>, error |-> <<>>]
    [] text = "{\"success\":false,\"data\":{\"x\":1},\"error\":{\"code\":\"FOO\",\"message\":\"bar\"}}" ->
         [parsed |-> TRUE, success |-> FALSE, data |-> <<"{\"x\":1}">>,
          error |-> << [code |-> "FOO", message |-> "bar"] >>]
    [] text = "{\"success\":false,\"error\":{\"code\":\"\",\"message\":\"\"}}" ->
         [parsed |-> TRUE, success |-> FALSE, data |-> <<>>,
          error |-> << [code |-> "", message |-> ""] >>]
    [] OTHER ->
         [parsed |-> FALSE, success |-> FALSE, data |-> <<>>, error |-> <<>>]

\* A Result<serde_json::Value, String>; op is the operation whose bridge call
\* produced it (0 for results made outside the worker).
Ok(v, op) == [ok |-> TRUE, val |-> v, op |-> op]

Err(msg, op) == [ok |-> FALSE, val |-> msg, op |-> op]

NoResult == [ok |-> FALSE, val |-> "", op |-> 0]

\* A decoder that fills in null for the data a success envelope lacks.
DecodeEnvelope_DefaultData(text, op) ==
  LET response == FromStr(text) IN
  IF ~response.parsed THEN Err("JSON parse error", op)
  ELSE IF response.success
       THEN Ok(IF response.data = <<>> THEN "null" ELSE response.data[1], op)
       ELSE LET err == IF response.error = <<>>
                       THEN [code |-> "UNKNOWN", message |-> "Unknown error"]
                       ELSE response.error[1]
            IN Err(err.code \o ": " \o err.message, op)

\* A decoder that looks at data before it looks at the success flag.
DecodeEnvelope_DataFirst(text, op) ==
  LET response == FromStr(text) IN
  IF ~response.parsed THEN Err("JSON parse error", op)
  ELSE IF response.data # <<>> THEN Ok(response.data[1], op)
  ELSE IF response.success THEN Err("Success response missing data", op)
  ELSE LET err == IF response.error = <<>>
                  THEN [code |-> "UNKNOWN", message |-> "Unknown error"]
                  ELSE response.error[1]
       IN Err(err.code \o ": " \o err.message, op)

\* The tail of get_version / call_ffi_with_params: parse the copied text as
\* the envelope and turn it into the Result.
DecodeEnvelope(text, op) ==
  LET response == FromStr(text) IN
  IF ~response.parsed THEN Err("JSON parse error", op)
  ELSE IF response.success
       THEN IF response.data = <<>> THEN Err("Success response missing data", op)
            ELSE Ok(response.data[1], op)
       ELSE LET err == IF response.error = <<>>
                       THEN [code |-> "UNKNOWN", message |-> "Unknown error"]
                       ELSE response.error[1]
            IN Err(err.code \o ": " \o err.message, op)

VARIABLES
  ops,              \* the operations created so far: Seq of [kind, params_json]
  prod,             \* per producer: position in its async method and its locals
  current_depth,    \* QueueMetrics.current_depth
  peak_depth,       \* QueueMetrics.peak_depth
  total_operations, \* QueueMetrics.total_operations
  chan,             \* the mpsc channel of WalletCommand (operation ids)
  receiverAlive,    \* the worker still owns the channel's Receiver
  sendersAlive,     \* some WalletQueue (a clone of the channel's Sender) still exists
  wpc,              \* the worker's position in worker_task
  wop,              \* the operation the worker holds (0: none)
  result,           \* the worker's local `result`
  events,           \* memory events of the bridge call of the current arm
  inFFI,            \* foreign invocations entered and not yet returned
  callLog,          \* every foreign invocation made: Seq of [op, symbol, params]
  enqLog,           \* operation ids in the order their send succeeded
  replies,          \* per operation: the messages in its oneshot channel
  sent,             \* per operation: number of messages ever put on its oneshot channel
  tx,               \* per operation: its respond_to sender, "none"/"open"/"dropped"
  rx,               \* per operation: its reply receiver, "none"/"open"/"dropped"
  got,              \* per operation: where the value its caller's method returned came from
  sendFailed,       \* operations whose respond_to.send returned Err
  recorded,         \* operations for which record_dequeue ran
  now,              \* the monotonic clock (Instant::now()), in ms
  operation_start,  \* the worker's local `operation_start`
  total_wait_time_ms, \* QueueMetrics.total_wait_time_ms
  enq_time,         \* per operation in the channel: the clock when its send succeeded
  queue_wait_ms,    \* sum over the dequeued operations of dequeue time minus enqueue time
  call,             \* one bridge call made outside the queue: its inputs, position and outcome
  ld,               \* one run of WalletLibrary::load: its environment, position and outcome
  xl,               \* one error translation: its input and the AppError made from it
  app,              \* main(): its position, the library it loaded, what it registered
  lz,               \* the LazyWalletQueue: its OnceLock cell and the commands calling it
  la                \* load_addresses: the AddressCache, its callers and the queue they use

queueVars == << ops, prod, current_depth, peak_depth, total_operations, chan,
                receiverAlive, sendersAlive, wpc, wop, result, events, inFFI, callLog, enqLog,
                replies, sent, tx, rx, got, sendFailed, recorded,
                now, operation_start, total_wait_time_ms, enq_time, queue_wait_ms >>

timeVars == << now, operation_start, total_wait_time_ms, enq_time, queue_wait_ms >>

\* The runs made on the caller's own thread, without the queue.
directVars == << call, ld, xl, app, lz, la >>

vars == << queueVars, directVars >>

metricsVars == << current_depth, peak_depth, total_operations >>

workerVars == << wpc, wop, result, events, inFFI, callLog, sent, sendFailed, recorded >>

IdleProducer == [pc |-> "idle", op |-> 0, depth |-> 0, peak |-> 0]

\* What a caller's method returned: the worker's reply for operation op, or
\* an error made by the method itself.
FromWorker(r) == [from |-> "worker", op |-> r.op]

Local(msg) == [from |-> msg, op |-> 0]

\* No direct bridge call, load or translation is in progress.
NoCall == [pc |-> "none"]

NoLoad == [pc |-> "none"]

NoXlate == [pc |-> "none"]

\* The application has not been started, and no command is running.
NoStartup == [pc |-> "none"]

NoLazy == [pc |-> "none"]

NoAddresses == [pc |-> "none"]

Idle ==
  /\ app = NoStartup
  /\ lz = NoLazy
  /\ la = NoAddresses

\* The queue as WalletQueue::new leaves it.
QueueInit ==
  /\ ops = <<>>
  /\ prod = [p \in Producers |-> IdleProducer]
  /\ current_depth = 0
  /\ peak_depth = 0
  /\ total_operations = 0
  /\ chan = <<>>
  /\ receiverAlive = TRUE
  /\ sendersAlive = TRUE
  /\ wpc = "recv"
  /\ wop = 0
  /\ result = NoResult
  /\ events = <<>>
  /\ inFFI = 0
  /\ callLog = <<>>
  /\ enqLog = <<>>
  /\ replies = [i \in OpIds |-> <<>>]
  /\ sent = [i \in OpIds |-> 0]
  /\ tx = [i \in OpIds |-> "none"]
  /\ rx = [i \in OpIds |-> "none"]
  /\ got = [i \in OpIds |-> <<>>]
  /\ sendFailed = {}
  /\ recorded = {}
  /\ now = 0
  /\ operation_start = 0
  /\ total_wait_time_ms = 0
  /\ enq_time = [i \in OpIds |-> 0]
  /\ queue_wait_ms = 0

Init ==
  /\ QueueInit
  /\ call = NoCall
  /\ ld = NoLoad
  /\ xl = NoXlate
  /\ Idle

(***************************************************************************)
(* Producers: the async methods of WalletQueue (all twelve have the body   *)
(* of create_wallet; get_version only lacks params_json).                  *)
(***************************************************************************)

\* A record_enqueue that does not count the submission.
FetchAdd1_Noop(x) == x

\* Longest foreign call, in ms.
MaxCallMs == 2

\* The durations of a foreign call that takes measurable time.
CallMillis == {MaxCallMs}

\* AtomicUsize::fetch_add(1) and fetch_sub(1) wrap around.
FetchAdd1(x) == IF x = UsizeMax THEN 0 ELSE x + 1

FetchSub1(x) == IF x = 0 THEN UsizeMax ELSE x - 1

\* oneshot(), then the first statement of record_enqueue:
\* depth = current_depth.fetch_add(1) + 1.
Submit(p, c) ==
  /\ prod[p].pc = "idle"
  /\ sendersAlive
  /\ Len(ops) < MaxOps
  /\ LET id == Len(ops) + 1 IN
     /\ ops' = Append(ops, [kind |-> c.kind, params_json |-> c.params_json])
     /\ tx' = [tx EXCEPT ![id] = "open"]
     /\ rx' = [rx EXCEPT ![id] = "open"]
     /\ current_depth' = FetchAdd1(current_depth)
     /\ prod' = [prod EXCEPT ![p] = [pc |-> "peak_load", op |-> id,
                                     depth |-> FetchAdd1(current_depth), peak |-> 0]]
  /\ UNCHANGED << peak_depth, total_operations, chan, receiverAlive, enqLog,
                  replies, got >>
  /\ UNCHANGED workerVars
  /\ UNCHANGED timeVars
  /\ UNCHANGED sendersAlive
  /\ UNCHANGED directVars

\* let mut peak = self.peak_depth.load()
PeakLoad(p) ==
  /\ prod[p].pc = "peak_load"
  /\ prod' = [prod EXCEPT ![p].peak = peak_depth, ![p].pc = "peak_loop"]
  /\ UNCHANGED << ops, current_depth, peak_depth, total_operations, chan,
                  receiverAlive, enqLog, replies, tx, rx, got >>
  /\ UNCHANGED workerVars
  /\ UNCHANGED timeVars
  /\ UNCHANGED sendersAlive
  /\ UNCHANGED directVars

\* A plain store in place of the compare-exchange: the new peak is written
\* whatever peak_depth holds by now.
PeakLoop_Store(p) ==
  /\ prod[p].pc = "peak_loop"
  /\ peak_depth' = IF prod[p].depth > prod[p].peak THEN prod[p].depth ELSE peak_depth
  /\ prod' = [prod EXCEPT ![p].pc = "send"]
  /\ UNCHANGED << ops, current_depth, total_operations, chan, receiverAlive,
                  enqLog, replies, tx, rx, got >>
  /\ UNCHANGED workerVars
  /\ UNCHANGED timeVars
  /\ UNCHANGED sendersAlive
  /\ UNCHANGED directVars

\* One evaluation of `while depth > peak { compare_exchange(peak, depth) }`.
PeakLoop(p) ==
  /\ prod[p].pc = "peak_loop"
  /\ IF prod[p].depth > prod[p].peak
     THEN IF peak_depth = prod[p].peak
          THEN /\ peak_depth' = prod[p].depth
               /\ prod' = [prod EXCEPT ![p].pc = "send"]
          ELSE /\ peak_depth' = peak_depth
               /\ prod' = [prod EXCEPT ![p].peak = peak_depth]
     ELSE /\ peak_depth' = peak_depth
          /\ prod' = [prod EXCEPT ![p].pc = "send"]
  /\ UNCHANGED << ops, current_depth, total_operations, chan, receiverAlive,
                  enqLog, replies, tx, rx, got >>
  /\ UNCHANGED workerVars
  /\ UNCHANGED timeVars
  /\ UNCHANGED sendersAlive
  /\ UNCHANGED directVars

\* self.sender.send(cmd) on the unbounded mpsc channel, receiver alive.
Send(p) ==
  /\ prod[p].pc = "send"
  /\ receiverAlive
  /\ chan' = Append(chan, prod[p].op)
  /\ enqLog' = Append(enqLog, prod[p].op)
  /\ prod' = [prod EXCEPT ![p].pc = "await"]
  /\ UNCHANGED << ops, receiverAlive, replies, tx, rx, got >>
  /\ UNCHANGED metricsVars
  /\ UNCHANGED workerVars
  /\ enq_time' = [enq_time EXCEPT ![prod[p].op] = now]
  /\ UNCHANGED << now, operation_start, total_wait_time_ms, queue_wait_ms >>
  /\ UNCHANGED sendersAlive
  /\ UNCHANGED directVars

\* A method that discards the error of send and goes on to wait for the
\* reply.
AfterClosedSend_Await(pr) == [pr EXCEPT !.pc = "await"]

\* .map_err(|_| "Queue channel closed")?: the method returns at once.
AfterClosedSend(pr) == IdleProducer

\* send fails because the receiver is gone: the command (and its respond_to)
\* comes back in the SendError and is dropped, `?` returns the error.
SendClosed(p) ==
  /\ prod[p].pc = "send"
  /\ ~receiverAlive
  /\ tx' = [tx EXCEPT ![prod[p].op] = "dropped"]
  /\ rx' = [rx EXCEPT ![prod[p].op] = "dropped"]
  /\ got' = [got EXCEPT ![prod[p].op] = << Local("Queue channel closed") >>]
  /\ prod' = [prod EXCEPT ![p] = AfterClosedSend(prod[p])]
  /\ UNCHANGED << ops, chan, receiverAlive, enqLog, replies >>
  /\ UNCHANGED metricsVars
  /\ UNCHANGED workerVars
  /\ UNCHANGED timeVars
  /\ UNCHANGED sendersAlive
  /\ UNCHANGED directVars

\* receiver.recv() inside spawn_blocking returns the reply.
AwaitReply(p) ==
  /\ prod[p].pc = "await"
  /\ rx[prod[p].op] = "open"
  /\ replies[prod[p].op] # <<>>
  /\ got' = [got EXCEPT ![prod[p].op] = << FromWorker(Head(replies[prod[p].op])) >>]
  /\ replies' = [replies EXCEPT ![prod[p].op] = Tail(@)]
  /\ rx' = [rx EXCEPT ![prod[p].op] = "dropped"]
  /\ prod' = [prod EXCEPT ![p] = IdleProducer]
  /\ UNCHANGED << ops, chan, receiverAlive, enqLog, tx >>
  /\ UNCHANGED metricsVars
  /\ UNCHANGED workerVars
  /\ UNCHANGED timeVars
  /\ UNCHANGED sendersAlive
  /\ UNCHANGED directVars

\* receiver.recv() fails: respond_to was dropped without a message.
AwaitClosed(p) ==
  /\ prod[p].pc = "await"
  /\ rx[prod[p].op] = "open"
  /\ replies[prod[p].op] = <<>>
  /\ tx[prod[p].op] = "dropped"
  /\ got' = [got EXCEPT ![prod[p].op] = << Local("Response channel closed") >>]
  /\ rx' = [rx EXCEPT ![prod[p].op] = "dropped"]
  /\ prod' = [prod EXCEPT ![p] = IdleProducer]
  /\ UNCHANGED << ops, chan, receiverAlive, enqLog, replies, tx >>
  /\ UNCHANGED metricsVars
  /\ UNCHANGED workerVars
  /\ UNCHANGED timeVars
  /\ UNCHANGED sendersAlive
  /\ UNCHANGED directVars

\* The caller goes away before the reply: the blocking task that owns the
\* receiver is discarded and the receiver dropped.  A channel with both ends
\* dropped is freed with whatever it holds.
DropReceiver(p) ==
  /\ prod[p].pc = "await"
  /\ rx[prod[p].op] = "open"
  /\ rx' = [rx EXCEPT ![prod[p].op] = "dropped"]
  /\ replies' = [replies EXCEPT ![prod[p].op] = IF tx[prod[p].op] = "dropped" THEN <<>> ELSE @]
  /\ prod' = [prod EXCEPT ![p] = IdleProducer]
  /\ UNCHANGED << ops, chan, receiverAlive, enqLog, tx, got >>
  /\ UNCHANGED metricsVars
  /\ UNCHANGED workerVars
  /\ UNCHANGED timeVars
  /\ UNCHANGED sendersAlive
  /\ UNCHANGED directVars

(***************************************************************************)
(* The bridge function after the foreign call has returned a non-null      *)
(* pointer.  It touches nothing shared, so the worker runs it in one step; *)
(* its memory events are kept in the order the statements run.             *)
(***************************************************************************)

\* GoFree moved in front of the copy.
BridgeSteps_FreeFirst == << "free", "copy", "decode" >>

\* The statements after the null check, in source order: copy the C string,
\* GoFree, parse and decode.
BridgeSteps == << "copy", "free", "decode" >>

NullMessage(kind) ==
  IF kind = "GetVersion" THEN "GetVersion returned null pointer"
  ELSE "FFI function returned null pointer"

Utf8Message(kind) ==
  IF kind = "GetVersion" THEN "Invalid UTF-8 from GetVersion" ELSE "Invalid UTF-8"

\* What reading the buffer yields: its bytes while it is live, arbitrary
\* bytes once GoFree has released it.
Readable(st) ==
  IF st.live THEN { [utf8 |-> st.utf8, text |-> st.text] }
  ELSE { [utf8 |-> r.utf8, text |-> r.text] : r \in ForeignResults \ {NullPtr} }

\* The set of ways the statements from the i-th on can run from bridge state
\* st = [live, utf8, text, owned, events, result].
RECURSIVE RunBridge(_, _, _, _)
RunBridge(i, st, kind, op) ==
  IF i > Len(BridgeSteps) THEN {st}
  ELSE CASE BridgeSteps[i] = "copy" ->
              UNION { IF ~seen.utf8
                      THEN { [st EXCEPT !.events = Append(@, "read"),
                                        !.result = Err(Utf8Message(kind), op)] }
                      ELSE RunBridge(i + 1, [st EXCEPT !.events = Append(@, "copy"),
                                                       !.owned = seen.text], kind, op)
                      : seen \in Readable(st) }
         [] BridgeSteps[i] = "free" ->
              RunBridge(i + 1, [st EXCEPT !.events = Append(@, "free"),
                                          !.live = FALSE], kind, op)
         [] BridgeSteps[i] = "decode" ->
              RunBridge(i + 1, [st EXCEPT !.events = Append(@, "decode"),
                                          !.result = DecodeEnvelope(st.owned, op)], kind, op)

\* A bridge function without `if result_ptr.is_null()`.
BridgeReturn_NoNullCheck(r, kind, op) ==
  { [events |-> st.events, result |-> st.result] :
      st \in RunBridge(1, [live |-> TRUE, utf8 |-> r.utf8, text |-> r.text, owned |-> "",
                           events |-> << "call", IF r.null THEN "return_null" ELSE "return_ptr" >>,
                           result |-> NoResult], kind, op) }

\* get_version / call_ffi_with_params from the return of the foreign function
\* r to the return of the bridge function: the possible [events, result].
BridgeReturn(r, kind, op) ==
  IF r.null
  THEN { [events |-> << "call", "return_null" >>, result |-> Err(NullMessage(kind), op)] }
  ELSE { [events |-> st.events, result |-> st.result] :
           st \in RunBridge(1, [live |-> TRUE, utf8 |-> r.utf8, text |-> r.text, owned |-> "",
                                events |-> << "call", "return_ptr" >>,
                                result |-> NoResult], kind, op) }

(***************************************************************************)
(* The worker thread: worker_task.                                         *)
(***************************************************************************)

\* A receive that leaves the command in the channel.
Recv_Peek(ch) == [cmd |-> Head(ch), rest |-> ch]

\* A receive that takes the newest command.
Recv_Lifo(ch) == [cmd |-> ch[Len(ch)], rest |-> SubSeq(ch, 1, Len(ch) - 1)]

\* receiver.recv() takes the oldest command of the channel.
Recv(ch) == [cmd |-> Head(ch), rest |-> Tail(ch)]

\* A worker that takes the next command while a foreign call is running
\* (one thread per command).
AtRecv_Reentrant == wpc \in {"recv", "ffi"}

\* The loop reaches receiver.recv() again only when the arm of the previous
\* command has run to its end.
AtRecv == wpc = "recv"

\* An arm that passes an empty string instead of its params_json.
CallParams_Empty(kind, params_json) == ""

\* The parameter string the match arm hands to the library method:
\* &params_json of the command itself (none for GetVersion).
CallParams(kind, params_json) == IF kind = "GetVersion" THEN "" ELSE params_json

\* respond_to.send(result).unwrap(): a failed send ends the thread.
AfterSend_Unwrap(delivered) == IF delivered THEN "record" ELSE "dead"

\* `let _ =` discards the outcome of respond_to.send: the arm goes on to
\* record_dequeue whether or not the message was delivered.
AfterSend(delivered) == "record"

\* `if let` instead of `while let`: the thread ends after one command.
LoopBack_Break == "dead"

\* At the end of the arm the while-let loop goes back to receiver.recv().
LoopBack == "recv"

\* while let Ok(cmd) = receiver.recv(), the match, and the bridge function up
\* to the foreign call: CString::new(params_json) fails and `?` returns, or
\* the raw foreign function is entered.
WorkerRecv ==
  /\ AtRecv
  /\ receiverAlive
  /\ chan # <<>>
  /\ LET cmd == Recv(chan).cmd
         kind == ops[cmd].kind
         params == CallParams(kind, ops[cmd].params_json) IN
     /\ wop' = cmd
     /\ chan' = Recv(chan).rest
     /\ IF kind # "GetVersion" /\ ~CStringNew(params).ok
        THEN /\ result' = Err("Invalid params JSON", cmd)
             /\ events' = <<>>
             /\ wpc' = "send"
             /\ UNCHANGED << inFFI, callLog >>
        ELSE /\ result' = NoResult
             /\ events' = << "call" >>
             /\ inFFI' = inFFI + 1
             /\ callLog' = Append(callLog, [op |-> cmd, symbol |-> LibrarySymbol(kind),
                                            params |-> CStringNew(params).bytes])
             /\ wpc' = "ffi"
  /\ UNCHANGED << ops, prod, receiverAlive, enqLog, replies, sent, tx, rx, got,
                  sendFailed, recorded >>
  /\ UNCHANGED metricsVars
  /\ operation_start' = now
  /\ queue_wait_ms' = queue_wait_ms + (now - enq_time[Recv(chan).cmd])
  /\ enq_time' = [enq_time EXCEPT ![Recv(chan).cmd] = 0]
  /\ UNCHANGED << now, total_wait_time_ms >>
  /\ UNCHANGED sendersAlive
  /\ UNCHANGED directVars

\* The foreign function returns r after d ms and the bridge function runs to
\* its return.
ForeignReturn(r, d) ==
  /\ wpc = "ffi"
  /\ inFFI' = inFFI - 1
  /\ \E o \in BridgeReturn(r, ops[wop].kind, wop) :
       /\ result' = o.result
       /\ events' = o.events
  /\ wpc' = "send"
  /\ UNCHANGED << ops, prod, chan, receiverAlive, wop, callLog, enqLog, replies, sent,
                  tx, rx, got, sendFailed, recorded >>
  /\ UNCHANGED metricsVars
  /\ now' = now + d
  /\ UNCHANGED << operation_start, total_wait_time_ms, enq_time, queue_wait_ms >>
  /\ UNCHANGED sendersAlive
  /\ UNCHANGED directVars

\* let _ = respond_to.send(result): the message is queued when the receiver
\* still exists, otherwise send returns Err and the error is discarded.
WorkerSend ==
  /\ wpc = "send"
  /\ IF rx[wop] = "open"
     THEN /\ replies' = [replies EXCEPT ![wop] = Append(@, result)]
          /\ sent' = [sent EXCEPT ![wop] = @ + 1]
          /\ sendFailed' = sendFailed
     ELSE /\ replies' = replies
          /\ sent' = sent
          /\ sendFailed' = sendFailed \cup {wop}
  /\ wpc' = AfterSend(rx[wop] = "open")
  /\ UNCHANGED << ops, prod, chan, receiverAlive, wop, result, events,
                  inFFI, callLog, enqLog, tx, rx, got, recorded >>
  /\ UNCHANGED metricsVars
  /\ UNCHANGED timeVars
  /\ UNCHANGED sendersAlive
  /\ UNCHANGED directVars

\* operation_start.elapsed().as_millis(): the time since the command was
\* received.
Elapsed(start) == now - start

\* metrics.record_dequeue(..); the arm ends and drops respond_to and the
\* locals (a oneshot channel with both ends dropped is freed);
\* operations_count += 1.
WorkerRecord ==
  /\ wpc = "record"
  /\ current_depth' = FetchSub1(current_depth)
  /\ total_operations' = total_operations + 1
  /\ recorded' = recorded \cup {wop}
  /\ tx' = [tx EXCEPT ![wop] = "dropped"]
  /\ replies' = [replies EXCEPT ![wop] = IF rx[wop] = "dropped" THEN <<>> ELSE @]
  /\ wop' = 0
  /\ result' = NoResult
  /\ events' = <<>>
  /\ wpc' = LoopBack
  /\ UNCHANGED << ops, prod, peak_depth, chan, receiverAlive, inFFI, callLog,
                  enqLog, sent, rx, got, sendFailed >>
  /\ total_wait_time_ms' = total_wait_time_ms + Elapsed(operation_start)
  /\ UNCHANGED << now, operation_start, enq_time, queue_wait_ms >>
  /\ UNCHANGED sendersAlive
  /\ UNCHANGED directVars

\* A panic while the arm executes on the Rust side (after the foreign call
\* has returned): worker_task has no catch_unwind, so the thread unwinds; the
\* receiver, the commands still in the channel and the current respond_to
\* are dropped.
WorkerPanic ==
  /\ wpc = "ffi"
  /\ inFFI' = inFFI - 1
  /\ wpc' = "dead"
  /\ receiverAlive' = FALSE
  /\ chan' = <<>>
  /\ tx' = [i \in OpIds |->
              IF i = wop \/ (\E k \in 1..Len(chan) : chan[k] = i) THEN "dropped" ELSE tx[i]]
  /\ UNCHANGED << ops, prod, wop, result, events, callLog,
                  enqLog, replies, sent, rx, got, sendFailed, recorded >>
  /\ UNCHANGED metricsVars
  /\ UNCHANGED timeVars
  /\ UNCHANGED sendersAlive
  /\ UNCHANGED directVars

Worker ==
  \/ WorkerRecv
  \/ \E r \in ForeignResults : ForeignReturn(r, 0)
  \/ WorkerSend
  \/ WorkerRecord

Next ==
  \/ \E p \in Producers, c \in Commands : Submit(p, c)
  \/ \E p \in Producers : PeakLoad(p)
  \/ \E p \in Producers : PeakLoop(p)
  \/ \E p \in Producers : Send(p)
  \/ \E p \in Producers : AwaitReply(p)
  \/ \E p \in Producers : DropReceiver(p)
  \/ Worker

Spec == Init /\ [][Next]_vars

\* The same program when an arm can panic.
NextPanic ==
  \/ Next
  \/ WorkerPanic
  \/ \E p \in Producers : SendClosed(p)
  \/ \E p \in Producers : AwaitClosed(p)

SpecPanic == Init /\ [][NextPanic]_vars

\* A receive that reports the disconnection as soon as the senders are gone.
Disconnected_Eager(ch, alive) == ~alive

\* receiver.recv() returns Err only when every Sender has been dropped and
\* the channel holds no more commands.
Disconnected(ch, alive) == ~alive /\ ch = <<>>

\* The last WalletQueue is dropped.  The async methods borrow the queue
\* until they return, so no caller is inside one.
DropSenders ==
  /\ sendersAlive
  /\ \A p \in Producers : prod[p].pc = "idle"
  /\ sendersAlive' = FALSE
  /\ UNCHANGED << ops, prod, chan, receiverAlive, enqLog, replies, tx, rx, got >>
  /\ UNCHANGED metricsVars
  /\ UNCHANGED workerVars
  /\ UNCHANGED timeVars
  /\ UNCHANGED directVars

\* `while let Ok(cmd) = receiver.recv()` ends: worker_task returns and drops
\* the receiver.
WorkerExit ==
  /\ AtRecv
  /\ receiverAlive
  /\ Disconnected(chan, sendersAlive)
  /\ wpc' = "exited"
  /\ receiverAlive' = FALSE
  /\ tx' = [i \in OpIds |-> IF \E k \in DOMAIN chan : chan[k] = i THEN "dropped" ELSE tx[i]]
  /\ chan' = <<>>
  /\ UNCHANGED << ops, prod, sendersAlive, wop, result, events, inFFI, callLog, enqLog,
                  replies, sent, rx, got, sendFailed, recorded >>
  /\ UNCHANGED metricsVars
  /\ UNCHANGED timeVars
  /\ UNCHANGED directVars

\* The same program when the queue is dropped at the end of the application.
NextShutdown ==
  \/ Next
  \/ DropSenders
  \/ WorkerExit

ShutdownSpec == Init /\ [][NextShutdown]_vars

\* The same program when foreign calls take time: Spec has the runs in
\* which every call returns within the same millisecond.
NextTimed ==
  \/ Next
  \/ \E r \in ForeignResults, d \in CallMillis : ForeignReturn(r, d)

TimedSpec == Init /\ [][NextTimed]_vars

\* The worker thread is scheduled, every foreign call returns, and a caller
\* blocked in recv() is woken by its reply.
LiveSpec ==
  /\ Spec
  /\ WF_vars(Worker)
  /\ \A p \in Producers : WF_vars(AwaitReply(p))

(***************************************************************************)
(* One bridge call made directly on a WalletLibrary, as main.rs does with  *)
(* get_version after load: the method, its params_json and the bytes the   *)
(* foreign function returns are the inputs.                                *)
(***************************************************************************)

DirectCalls ==
  { [pc |-> "start", kind |-> c.kind, params_json |-> c.params_json, ret |-> r,
     result |-> NoResult, events |-> <<>>] : c \in Commands, r \in DirectResults }

BridgeInit ==
  /\ QueueInit
  /\ call \in DirectCalls
  /\ ld = NoLoad
  /\ xl = NoXlate
  /\ Idle

\* The bridge function up to the foreign call: CString::new(params_json)
\* fails and `?` returns, or the raw foreign function is entered.
BridgeEnter ==
  /\ call.pc = "start"
  /\ LET params == CallParams(call.kind, call.params_json) IN
     IF call.kind # "GetVersion" /\ ~CStringNew(params).ok
     THEN call' = [call EXCEPT !.pc = "done", !.result = Err("Invalid params JSON", 0)]
     ELSE call' = [call EXCEPT !.pc = "ffi", !.events = << "call" >>]
  /\ UNCHANGED << queueVars, ld, xl, app, lz, la >>

\* The foreign function returns call.ret and the bridge function runs to its
\* return.
BridgeExit ==
  /\ call.pc = "ffi"
  /\ \E o \in BridgeReturn(call.ret, call.kind, 0) :
       call' = [call EXCEPT !.pc = "done", !.result = o.result, !.events = o.events]
  /\ UNCHANGED << queueVars, ld, xl, app, lz, la >>

BridgeNext ==
  \/ BridgeEnter
  \/ BridgeExit

BridgeSpec == BridgeInit /\ [][BridgeNext]_vars

(***************************************************************************)
(* WalletLibrary::load and get_search_paths.  The inputs of a run are the  *)
(* platform the binary was built for, the environment variables that are   *)
(* set, the candidate files the OS loader accepts and the symbols the      *)
(* library exports.                                                        *)
(***************************************************************************)

Range(seq) == { seq[k] : k \in DOMAIN seq }

Platforms == { "windows", "macos", "linux" }

\* The cfg(target_os) choice of lib_name.
lib_name(platform) ==
  CASE platform = "windows" -> "libarcsign.dll"
    [] platform = "macos"   -> "libarcsign.dylib"
    [] platform = "linux"   -> "libarcsign.so"

\* The variables get_search_paths reads on a platform, and the value each
\* has when it is set.
EnvVars(platform) ==
  IF platform = "windows" THEN { "APPDATA", "ProgramFiles", "ProgramFiles(x86)" } ELSE { "HOME" }

EnvValue(key) ==
  CASE key = "APPDATA"           -> "C:\\Users\\u\\AppData\\Roaming"
    [] key = "ProgramFiles"      -> "C:\\Program Files"
    [] key = "ProgramFiles(x86)" -> "C:\\Program Files (x86)"
    [] key = "HOME"              -> "/home/u"

\* std::env::var(key) in an environment env (the set of variables set).
env_var(env, key) == IF key \in env THEN << EnvValue(key) >> ELSE <<>>

\* A list that puts the install directories in front of the bare name.
get_search_paths_InstallFirst(platform, name, env) ==
  << "/usr/local/lib/arcsign/" \o name, name, "src-tauri/" \o name >>

\* get_search_paths: the bare name, the two development directories, then
\* the platform's user and system directories.
get_search_paths(platform, name, env) ==
  LET dir(key, mid) ==
        IF env_var(env, key) = <<>> THEN <<>> ELSE << env_var(env, key)[1] \o mid \o name >>
  IN << name, "dashboard/src-tauri/" \o name, "src-tauri/" \o name >> \o
     CASE platform = "windows" ->
            dir("APPDATA", "\\arcSign\\") \o dir("ProgramFiles", "\\arcSign\\")
              \o dir("ProgramFiles(x86)", "\\arcSign\\")
       [] platform = "macos" ->
            dir("HOME", "/Library/Application Support/arcSign/")
              \o << "/Applications/arcSign.app/Contents/Resources/" \o name,
                    "/usr/local/lib/arcsign/" \o name >>
       [] platform = "linux" ->
            dir("HOME", "/.local/lib/arcsign/")
              \o << "/usr/local/lib/arcsign/" \o name, "/opt/arcsign/lib/" \o name >>

\* The symbols load resolves, in the order it resolves them.
RequiredSymbols ==
  << "GoFree", "GetVersion", "CreateWallet", "ImportWallet", "UnlockWallet",
     "GenerateAddresses", "ExportWallet", "RenameWallet", "ListWallets",
     "BuildTransaction", "SignTransaction", "BroadcastTransaction",
     "QueryTransactionStatus", "EstimateFee" >>

\* Number of required symbols a library of the input set may lack.
MaxMissing == 2

ExportSets ==
  { Range(RequiredSymbols) \ M : M \in { m \in SUBSET Range(RequiredSymbols) : Cardinality(m) <= MaxMissing } }

\* Library::new(path): the handle of the file at path, or the OS error.
LibraryNew(loadable, path) ==
  IF path \in loadable THEN [ok |-> TRUE, e |-> ""]
  ELSE [ok |-> FALSE, e |-> "cannot open shared object file"]

\* A lookup that hands back a null function pointer for a missing symbol.
LibGet_Lenient(exports, symbol) == [ok |-> TRUE, e |-> ""]

\* lib.get(symbol).
LibGet(exports, symbol) ==
  IF symbol \in exports THEN [ok |-> TRUE, e |-> ""] ELSE [ok |-> FALSE, e |-> "undefined symbol"]

\* Iteration from the last candidate to the first.
SearchOrder_Reversed(paths) == [k \in DOMAIN paths |-> paths[Len(paths) + 1 - k]]

\* `for path in &search_paths` visits the list from its first element on.
SearchOrder(paths) == paths

LoaderInit ==
  /\ QueueInit
  /\ call = NoCall
  /\ xl = NoXlate
  /\ Idle
  /\ \E pl \in Platforms : \E env \in SUBSET EnvVars(pl) :
       \E L \in SUBSET Range(get_search_paths(pl, lib_name(pl), env)) : \E X \in ExportSets :
         ld = [pc |-> "start", platform |-> pl, env |-> env, loadable |-> L, exports |-> X,
               search_paths |-> <<>>, i |-> 0, last_error |-> <<>>, attempted |-> <<>>,
               lib |-> <<>>, resolved |-> <<>>, error |-> <<>>, library |-> <<>>,
               calls |-> <<>>]

\* lib_name and get_search_paths(lib_name); last_error = String::new().
LoadStart ==
  /\ ld.pc = "start"
  /\ ld' = [ld EXCEPT !.pc = "search", !.i = 1,
                      !.search_paths = get_search_paths(ld.platform, lib_name(ld.platform), ld.env)]
  /\ UNCHANGED << queueVars, call, xl, app, lz, la >>

\* One iteration of the search loop: Library::new(path) succeeds and the
\* loop is left with the handle, or last_error becomes "path: e".  Strings
\* built by format! are kept as the sequence of their pieces.
TryPath ==
  /\ ld.pc = "search"
  /\ ld.i <= Len(ld.search_paths)
  /\ LET path == SearchOrder(ld.search_paths)[ld.i]
         r == LibraryNew(ld.loadable, path) IN
     IF r.ok
     THEN ld' = [ld EXCEPT !.attempted = Append(@, path), !.lib = << path >>,
                           !.pc = "symbols"]
     ELSE ld' = [ld EXCEPT !.attempted = Append(@, path), !.i = @ + 1,
                           !.last_error = << path, ": ", r.e >>]
  /\ UNCHANGED << queueVars, call, xl, app, lz, la >>

\* The loop ran out of candidates: return Err(format!("Failed to load {}
\* from any search path. Last error: {}", lib_name, last_error)).
SearchFailed ==
  /\ ld.pc = "search"
  /\ ld.i > Len(ld.search_paths)
  /\ ld' = [ld EXCEPT !.pc = "err",
                      !.error = << "Failed to load ", lib_name(ld.platform),
                                   " from any search path. Last error: " >> \o ld.last_error]
  /\ UNCHANGED << queueVars, call, xl, app, lz, la >>

\* The next lib.get(b"..").map_err(..)?: the symbol is kept, or load returns
\* "<symbol> symbol not found: e" and the handle is dropped.
ResolveSymbol ==
  /\ ld.pc = "symbols"
  /\ Len(ld.resolved) < Len(RequiredSymbols)
  /\ LET symbol == RequiredSymbols[Len(ld.resolved) + 1]
         r == LibGet(ld.exports, symbol) IN
     IF r.ok
     THEN ld' = [ld EXCEPT !.resolved = Append(@, symbol)]
     ELSE ld' = [ld EXCEPT !.pc = "err",
                           !.error = << symbol, " symbol not found: ", r.e >>]
  /\ UNCHANGED << queueVars, call, xl, app, lz, la >>

\* Ok(WalletLibrary { lib, go_free, get_version, .. }).
LoadOk ==
  /\ ld.pc = "symbols"
  /\ Len(ld.resolved) = Len(RequiredSymbols)
  /\ ld' = [ld EXCEPT !.pc = "ok", !.library = << [lib |-> ld.lib[1], table |-> ld.resolved] >>]
  /\ UNCHANGED << queueVars, call, xl, app, lz, la >>

LoaderNext ==
  \/ LoadStart
  \/ TryPath
  \/ SearchFailed
  \/ ResolveSymbol
  \/ LoadOk

LoaderSpec == LoaderInit /\ [][LoaderNext]_vars

(***************************************************************************)
(* Error translation (error.rs, ffi/types.rs): pure functions from the     *)
(* library's code string, or from a local failure, to an error kind.       *)
(***************************************************************************)

\* The codes the arms of the two matches name.
KnownFfiCodes ==
  { "INVALID_INPUT", "INVALID_MNEMONIC", "INVALID_PASSWORD", "INVALID_BLOCKCHAIN",
    "WALLET_NOT_FOUND", "WALLET_ALREADY_EXISTS", "STORAGE_ERROR", "ENCRYPTION_ERROR",
    "LIBRARY_PANIC" }

\* The codes given to the translators: the known ones and some others.
FfiCodes == KnownFfiCodes \cup { "ZZZ", "FOO", "", "UNKNOWN", "invalid_input", "INTERNAL_ERROR" }

Messages == { "bar", "open /usb/w.json failed" }

\* Option<serde_json::Value>: none, an object with a string hint, an object
\* without one.
Contexts == { <<>>, << [hint |-> << "retry" >>] >>, << [hint |-> <<>>] >> }

\* AppError::from_ffi_error_code.
from_ffi_error_code(ffi_code) ==
  CASE ffi_code = "INVALID_INPUT"         -> "FfiInvalidInput"
    [] ffi_code = "INVALID_MNEMONIC"      -> "InvalidMnemonic"
    [] ffi_code = "INVALID_PASSWORD"      -> "InvalidPassword"
    [] ffi_code = "INVALID_BLOCKCHAIN"    -> "FfiInvalidBlockchain"
    [] ffi_code = "WALLET_NOT_FOUND"      -> "WalletNotFound"
    [] ffi_code = "WALLET_ALREADY_EXISTS" -> "WalletAlreadyExists"
    [] ffi_code = "STORAGE_ERROR"         -> "FfiStorageError"
    [] ffi_code = "ENCRYPTION_ERROR"      -> "FfiEncryptionError"
    [] ffi_code = "LIBRARY_PANIC"         -> "FfiLibraryPanic"
    [] OTHER                              -> "InternalError"

\* impl From<String> for ffi::types::ErrorCode; code is the payload of
\* Unknown.
ErrorCodeFrom(s) ==
  CASE s = "INVALID_INPUT"         -> [kind |-> "InvalidInput", code |-> ""]
    [] s = "INVALID_MNEMONIC"      -> [kind |-> "InvalidMnemonic", code |-> ""]
    [] s = "INVALID_PASSWORD"      -> [kind |-> "InvalidPassword", code |-> ""]
    [] s = "INVALID_BLOCKCHAIN"    -> [kind |-> "InvalidBlockchain", code |-> ""]
    [] s = "WALLET_NOT_FOUND"      -> [kind |-> "WalletNotFound", code |-> ""]
    [] s = "WALLET_ALREADY_EXISTS" -> [kind |-> "WalletAlreadyExists", code |-> ""]
    [] s = "STORAGE_ERROR"         -> [kind |-> "StorageError", code |-> ""]
    [] s = "ENCRYPTION_ERROR"      -> [kind |-> "EncryptionError", code |-> ""]
    [] s = "LIBRARY_PANIC"         -> [kind |-> "LibraryPanic", code |-> ""]
    [] OTHER                       -> [kind |-> "Unknown", code |-> s]

\* AppError::sanitize_message on the one-line messages above: a line with a
\* path separator is replaced.
sanitize_message(message) ==
  IF message = "open /usb/w.json failed"
  THEN "Error occurred (path details hidden for security)"
  ELSE message

\* AppError::from_ffi_error: new / with_details with the translated code.
from_ffi_error(ffi_code, message, context) ==
  [ code    |-> from_ffi_error_code(ffi_code),
    message |-> sanitize_message(message),
    details |-> IF context = <<>> THEN <<>> ELSE context[1].hint ]

\* impl From<std::io::Error> for AppError.
FromIoError(error) ==
  [ code    |-> "InternalError",
    message |-> sanitize_message("File system operation failed"),
    details |-> << error >> ]

\* impl From<serde_json::Error> for AppError.
FromJsonError(error) ==
  [ code    |-> "DeserializationError",
    message |-> sanitize_message("JSON parsing failed"),
    details |-> << error >> ]

NoAppError == [code |-> "", message |-> "", details |-> <<>>]

XlateInputs ==
  { [pc |-> "start", origin |-> "ffi", ffi_code |-> c, message |-> m, context |-> x,
     app |-> NoAppError, ffi |-> ErrorCodeFrom("INVALID_INPUT")] :
       c \in FfiCodes, m \in Messages, x \in Contexts }
  \cup
  { [pc |-> "start", origin |-> o, ffi_code |-> "", message |-> m, context |-> <<>>,
     app |-> NoAppError, ffi |-> ErrorCodeFrom("INVALID_INPUT")] :
       o \in {"io", "json"}, m \in Messages }

XlateInit ==
  /\ QueueInit
  /\ call = NoCall
  /\ ld = NoLoad
  /\ xl \in XlateInputs
  /\ Idle

\* A foreign error {code, message} is translated by both translators.
TranslateFfi ==
  /\ xl.pc = "start"
  /\ xl.origin = "ffi"
  /\ xl' = [xl EXCEPT !.pc = "done",
                      !.app = from_ffi_error(xl.ffi_code, xl.message, xl.context),
                      !.ffi = ErrorCodeFrom(xl.ffi_code)]
  /\ UNCHANGED << queueVars, call, ld, app, lz, la >>

\* A local failure is turned into an AppError by `?` / .into().
TranslateLocal ==
  /\ xl.pc = "start"
  /\ xl.origin \in {"io", "json"}
  /\ xl' = [xl EXCEPT !.pc = "done",
                      !.app = IF xl.origin = "io" THEN FromIoError(xl.message)
                              ELSE FromJsonError(xl.message)]
  /\ UNCHANGED << queueVars, call, ld, app, lz, la >>

XlateNext ==
  \/ TranslateFfi
  \/ TranslateLocal

XlateSpec == XlateInit /\ [][XlateNext]_vars

(***************************************************************************)
(* main(): the library is loaded and its version asked for before the      *)
(* application is built; the setup hook registers the LazyWalletQueue that  *)
(* the commands use, and the first command to need it creates the queue.    *)
(***************************************************************************)

\* What WalletLibrary::load() can return to main.
LoadResults ==
  { [ok |-> TRUE, e |-> ""],
    [ok |-> FALSE, e |-> "Failed to load from any search path"],
    [ok |-> FALSE, e |-> "symbol not found"] }

MaxLazyCallers == 3

MaxLazyCalls == 2

\* The commands that run concurrently on the async runtime.
LazyCallers == 1..MaxLazyCallers

StartupInit ==
  /\ QueueInit
  /\ call = NoCall
  /\ ld = NoLoad
  /\ xl = NoXlate
  /\ la = NoAddresses
  /\ app = [pc |-> "load", loaded |-> FALSE, load |-> [ok |-> FALSE, e |-> ""],
            checked |-> FALSE, version |-> NoResult, warned |-> FALSE,
            library |-> FALSE, registered |-> FALSE]
  /\ lz = [cell |-> 0, running |-> {}, created |-> 0, workers |-> 0, waited |-> {},
           pc |-> [t \in LazyCallers |-> "idle"],
           handle |-> [t \in LazyCallers |-> 0],
           calls |-> [t \in LazyCallers |-> 0],
           sent |-> [t \in LazyCallers |-> {}]]

\* match WalletLibrary::load(): Ok(lib) goes on to the version check, Err(e)
\* prints the report and calls std::process::exit(1).
StartupLoad ==
  /\ app.pc = "load"
  /\ \E r \in LoadResults :
       app' = [app EXCEPT !.loaded = TRUE, !.load = r,
                          !.pc = IF r.ok THEN "version" ELSE "exited"]
  /\ UNCHANGED << queueVars, call, ld, xl, lz, la >>

\* A main that goes on after a failed version check.
AfterVersion_Continue(r) == "setup"

\* match lib.get_version(): Err(e) calls std::process::exit(1); Ok goes on to
\* Some(Arc::new(lib)), with or without the version warning.
AfterVersion(r) == IF r.ok THEN "setup" ELSE "exited"

\* version_data.get("version").and_then(|v| v.as_str()).unwrap_or("unknown"):
\* none of the data values a library returns here has a "version" string.
VersionOf(data) == "unknown"

\* lib.get_version() on the main thread and the match on its result.
StartupVersion ==
  /\ app.pc = "version"
  /\ \E ret \in DirectResults : \E o \in BridgeReturn(ret, "GetVersion", 0) :
       app' = [app EXCEPT !.checked = TRUE, !.version = o.result,
                          !.warned = o.result.ok /\ VersionOf(o.result.val) # "0.2.0",
                          !.library = AfterVersion(o.result) = "setup",
                          !.pc = AfterVersion(o.result)]
  /\ UNCHANGED << queueVars, call, ld, xl, lz, la >>

\* The setup hook: if let Some(lib) = library_for_setup, the LazyWalletQueue
\* is made and registered with app.manage; the commands can run from here.
StartupSetup ==
  /\ app.pc = "setup"
  /\ app' = [app EXCEPT !.registered = app.library, !.pc = "running"]
  /\ UNCHANGED << queueVars, call, ld, xl, lz, la >>

\* A cell that lets a caller run the initializer while another one runs it.
OnceBegin_Unsynchronised(cell, running) == cell = 0

\* OnceLock::get_or_init runs the closure in the one caller that finds the
\* cell empty and no initializer running.
OnceBegin(cell, running) == cell = 0 /\ running = {}

\* A command calls a LazyWalletQueue method: self.get_or_init() returns the
\* queue in the cell, or starts the initializer, or blocks on the one running.
LazyCall(t) ==
  /\ app.pc = "running"
  /\ app.registered
  /\ lz.pc[t] = "idle"
  /\ lz.calls[t] < MaxLazyCalls
  /\ IF lz.cell # 0
     THEN lz' = [lz EXCEPT !.pc[t] = "got", !.handle[t] = lz.cell]
     ELSE IF OnceBegin(lz.cell, lz.running)
          THEN lz' = [lz EXCEPT !.pc[t] = "init", !.running = @ \cup {t}]
          ELSE lz' = [lz EXCEPT !.pc[t] = "blocked", !.waited = @ \cup {t}]
  /\ UNCHANGED << queueVars, call, ld, xl, app, la >>

\* The closure: WalletQueue::new(self.library.clone()) makes a channel and
\* spawns a worker thread; the cell takes the queue.
LazyInit(t) ==
  /\ lz.pc[t] = "init"
  /\ lz' = [lz EXCEPT !.created = @ + 1, !.workers = @ + 1,
                      !.cell = lz.created + 1,
                      !.running = @ \ {t},
                      !.handle[t] = lz.created + 1,
                      !.pc[t] = "got"]
  /\ UNCHANGED << queueVars, call, ld, xl, app, la >>

\* A caller blocked in get_or_init is released when the cell is set.
LazyWake(t) ==
  /\ lz.pc[t] = "blocked"
  /\ lz.cell # 0
  /\ lz' = [lz EXCEPT !.pc[t] = "got", !.handle[t] = lz.cell]
  /\ UNCHANGED << queueVars, call, ld, xl, app, la >>

\* The method of the WalletQueue it got sends the command on that queue's
\* channel.
LazySubmit(t) ==
  /\ lz.pc[t] = "got"
  /\ lz' = [lz EXCEPT !.pc[t] = "idle", !.calls[t] = @ + 1,
                      !.sent[t] = @ \cup {lz.handle[t]}]
  /\ UNCHANGED << queueVars, call, ld, xl, app, la >>

StartupNext ==
  \/ StartupLoad
  \/ StartupVersion
  \/ StartupSetup
  \/ \E t \in LazyCallers : LazyCall(t)
  \/ \E t \in LazyCallers : LazyInit(t)
  \/ \E t \in LazyCallers : LazyWake(t)
  \/ \E t \in LazyCallers : LazySubmit(t)

StartupSpec == StartupInit /\ [][StartupNext]_vars

(***************************************************************************)
(* commands::wallet::load_addresses: the AddressCache is looked up under    *)
(* its mutex; on a miss the wallet is unlocked and its addresses generated  *)
(* through the queue, then cached.  The queue is the FIFO of commands and   *)
(* the one worker that answers them.                                        *)
(***************************************************************************)

MaxLoads == 2

MaxOther == 1

\* The invocations of the command that run concurrently.
LoadCallers == {1, 2}

WalletIds == {"w1", "w2"}

\* What the queue can reply to a command.
QueueReplies ==
  { [ok |-> TRUE, val |-> "{\"addresses\":[{\"blockchain\":\"bitcoin\"}]}"],
    [ok |-> TRUE, val |-> "{\"x\":1}"],
    [ok |-> FALSE, val |-> "INVALID_PASSWORD: bad"],
    [ok |-> FALSE, val |-> "Response channel closed"] }

\* The map_err closure after unlock_wallet: e.contains(..) picks the code.
MapUnlockError(e) ==
  CASE e = "INVALID_PASSWORD: bad" -> "PasswordTooWeak"
    [] OTHER -> "CliExecutionFailed"

\* The map_err closure after generate_addresses.
MapGenerateError(e) ==
  CASE e = "INVALID_PASSWORD: bad" -> "CliExecutionFailed"
    [] OTHER -> "CliExecutionFailed"

\* ffi_response.get("addresses").and_then(|v| v.as_array()) and the map to
\* Vec<Address>: symbol is the upper-cased blockchain name.
AddressesOf(val) ==
  CASE val = "{\"addresses\":[{\"blockchain\":\"bitcoin\"}]}" ->
         [found |-> TRUE, list |-> << [symbol |-> "BITCOIN", name |-> "bitcoin"] >>]
    [] OTHER -> [found |-> FALSE, list |-> <<>>]

NoLoadCall ==
  [pc |-> "idle", wallet_id |-> "", present |-> FALSE, seen |-> <<>>, zeroed |-> FALSE,
   unlock_response |-> <<>>, ffi_response |-> <<>>, reply |-> <<>>, submitted |-> <<>>,
   addresses |-> <<>>, inserted |-> FALSE, ret |-> [ok |-> FALSE, val |-> <<>>]]

AddressInit ==
  /\ QueueInit
  /\ call = NoCall
  /\ ld = NoLoad
  /\ xl = NoXlate
  /\ app = NoStartup
  /\ lz = NoLazy
  /\ la = [cache |-> [w \in WalletIds |-> <<>>], lock |-> 0, chan |-> <<>>, log |-> <<>>,
           loads |-> 0, others |-> 0, c |-> [t \in LoadCallers |-> NoLoadCall]]

\* The command is invoked: let start = Instant::now().
LoadAddresses(t, w) ==
  /\ la.c[t].pc \in {"idle", "done"}
  /\ la.loads < MaxLoads
  /\ la' = [la EXCEPT !.loads = @ + 1,
                      !.c[t] = [NoLoadCall EXCEPT !.pc = "check_lock", !.wallet_id = w]]
  /\ UNCHANGED << queueVars, call, ld, xl, app, lz >>

\* cache.0.lock().unwrap(), before the lookup and before the insert.
LoadLock(t) ==
  /\ la.c[t].pc \in {"check_lock", "insert_lock"}
  /\ la.lock = 0
  /\ la' = [la EXCEPT !.lock = t,
                      !.c[t].pc = IF la.c[t].pc = "check_lock" THEN "check" ELSE "insert"]
  /\ UNCHANGED << queueVars, call, ld, xl, app, lz >>

\* A lookup that never finds the entry.
CacheGet_Miss(cache, w) == <<>>

\* cache_lock.get(&wallet_id).
CacheGet(cache, w) == cache[w]

\* The first block: a hit zeroes the password and returns the cached
\* addresses; the guard is dropped at the end of the block either way.
LoadCheck(t) ==
  /\ la.c[t].pc = "check"
  /\ LET w == la.c[t].wallet_id
         cached_addresses == CacheGet(la.cache, w) IN
     IF cached_addresses # <<>>
     THEN la' = [la EXCEPT !.lock = 0,
                           !.c[t].present = la.cache[w] # <<>>, !.c[t].seen = la.cache[w],
                           !.c[t].zeroed = TRUE,
                           !.c[t].ret = [ok |-> TRUE, val |-> cached_addresses[1]],
                           !.c[t].pc = "done"]
     ELSE la' = [la EXCEPT !.lock = 0,
                           !.c[t].present = la.cache[w] # <<>>, !.c[t].seen = la.cache[w],
                           !.c[t].pc = "unlock"]
  /\ UNCHANGED << queueVars, call, ld, xl, app, lz >>

\* queue.unlock_wallet(..) or queue.generate_addresses(..) up to its await:
\* the command is in the channel.
LoadSubmit(t) ==
  /\ la.c[t].pc \in {"unlock", "generate"}
  /\ LET kind == IF la.c[t].pc = "unlock" THEN "unlock_wallet" ELSE "generate_addresses" IN
     la' = [la EXCEPT !.chan = Append(@, [from |-> t, kind |-> kind]),
                      !.c[t].submitted = Append(@, kind),
                      !.c[t].pc = IF la.c[t].pc = "unlock" THEN "await_unlock"
                                                            ELSE "await_generate"]
  /\ UNCHANGED << queueVars, call, ld, xl, app, lz >>

\* Another command of the application submits an operation.
OtherSubmit ==
  /\ la.others < MaxOther
  /\ la' = [la EXCEPT !.others = @ + 1,
                      !.chan = Append(@, [from |-> 0, kind |-> "list_wallets"])]
  /\ UNCHANGED << queueVars, call, ld, xl, app, lz >>

\* The worker takes the oldest command, runs it and sends its reply.
QueueWorker ==
  /\ la.chan # <<>>
  /\ LET cmd == Head(la.chan) IN
     \E r \in QueueReplies :
       la' = [la EXCEPT !.chan = Tail(@), !.log = Append(@, cmd),
                        !.c = IF cmd.from \in LoadCallers
                              THEN [@ EXCEPT ![cmd.from].reply = << r >>]
                              ELSE @]
  /\ UNCHANGED << queueVars, call, ld, xl, app, lz >>

\* A command that goes on to generate whatever the unlock replied.
AfterUnlock_Ignore(r) == "generate"

\* .await.map_err(..)? after unlock_wallet.
AfterUnlock(r) == IF r.ok THEN "generate" ELSE "done"

\* The unlock reply arrives: an error is mapped and returned, a success
\* zeroes the password and goes on to the second step.
LoadAfterUnlock(t) ==
  /\ la.c[t].pc = "await_unlock"
  /\ la.c[t].reply # <<>>
  /\ LET r == la.c[t].reply[1] IN
     IF AfterUnlock(r) = "generate"
     THEN la' = [la EXCEPT !.c[t].reply = <<>>, !.c[t].unlock_response = << r >>,
                           !.c[t].zeroed = TRUE, !.c[t].pc = "generate"]
     ELSE la' = [la EXCEPT !.c[t].reply = <<>>, !.c[t].unlock_response = << r >>,
                           !.c[t].ret = [ok |-> FALSE, val |-> MapUnlockError(r.val)],
                           !.c[t].pc = "done"]
  /\ UNCHANGED << queueVars, call, ld, xl, app, lz >>

\* The generate reply arrives: an error is mapped and returned; a reply
\* without an addresses array is a DeserializationError; else the addresses
\* are converted.
LoadAfterGenerate(t) ==
  /\ la.c[t].pc = "await_generate"
  /\ la.c[t].reply # <<>>
  /\ LET r == la.c[t].reply[1]
         a == AddressesOf(r.val) IN
     IF ~r.ok
     THEN la' = [la EXCEPT !.c[t].reply = <<>>, !.c[t].ffi_response = << r >>,
                           !.c[t].ret = [ok |-> FALSE, val |-> MapGenerateError(r.val)],
                           !.c[t].pc = "done"]
     ELSE IF ~a.found
          THEN la' = [la EXCEPT !.c[t].reply = <<>>, !.c[t].ffi_response = << r >>,
                                !.c[t].ret = [ok |-> FALSE, val |-> "DeserializationError"],
                                !.c[t].pc = "done"]
          ELSE la' = [la EXCEPT !.c[t].reply = <<>>, !.c[t].ffi_response = << r >>,
                                !.c[t].addresses = << a.list >>,
                                !.c[t].pc = "insert_lock"]
  /\ UNCHANGED << queueVars, call, ld, xl, app, lz >>

\* The last block: cache_lock.insert(wallet_id, addresses), the guard is
\* dropped, and Ok(AddressListResponse) is returned.
LoadInsert(t) ==
  /\ la.c[t].pc = "insert"
  /\ la' = [la EXCEPT !.cache[la.c[t].wallet_id] = la.c[t].addresses,
                      !.lock = 0,
                      !.c[t].inserted = TRUE,
                      !.c[t].ret = [ok |-> TRUE, val |-> la.c[t].addresses[1]],
                      !.c[t].pc = "done"]
  /\ UNCHANGED << queueVars, call, ld, xl, app, lz >>

AddressNext ==
  \/ \E t \in LoadCallers, w \in WalletIds : LoadAddresses(t, w)
  \/ \E t \in LoadCallers : LoadLock(t)
  \/ \E t \in LoadCallers : LoadCheck(t)
  \/ \E t \in LoadCallers : LoadSubmit(t)
  \/ OtherSubmit
  \/ QueueWorker
  \/ \E t \in LoadCallers : LoadAfterUnlock(t)
  \/ \E t \in LoadCallers : LoadAfterGenerate(t)
  \/ \E t \in LoadCallers : LoadInsert(t)

AddressSpec == AddressInit /\ [][AddressNext]_vars

(***************************************************************************)
(* Properties.                                                             *)
(***************************************************************************)

\* The capacity a bounded queue would have (the design gives 100 as an
\* example), scaled to the size of the runs checked here.
QueueCapacity == 1

Count(seq, e) == Cardinality({ i \in DOMAIN seq : seq[i] = e })

Enqueued(id) == \E k \in DOMAIN enqLog : enqLog[k] = id

Pos(id) == CHOOSE k \in DOMAIN enqLog : enqLog[k] = id

\* The worker has taken the command of id out of the channel.
Started(id) == id = wop \/ id \in recorded

\* The worker has executed respond_to.send for id.
SendDone(id) == id \in recorded \/ (id = wop /\ wpc = "record")

Created == 1..Len(ops)

\* C1: at most one invocation of a foreign library function is in progress
\* at any moment, however the producers interleave with the worker.
C1_OneForeignCallAtATime == inFFI <= 1

\* A foreign call is running while another command waits in the channel and
\* was put there after the call had been entered.
C1_Witness ==
  /\ inFFI = 1
  /\ wpc = "ffi"
  /\ chan # <<>>
  /\ Len(callLog) = 1

\* C2 (as claimed): when the bridge function has returned and the foreign
\* function had returned a non-null pointer, GoFree ran exactly once on it.
C2_FreedExactlyOnce ==
  (wpc \in {"send", "record"} /\ Count(events, "return_ptr") = 1)
    => Count(events, "free") = 1

\* C3: within one bridge call GoFree runs only after the copy is complete,
\* the foreign buffer is not read after GoFree, and the text is decoded only
\* after GoFree; all of it after the foreign call returned the pointer.
C3_CopyThenFreeThenDecode ==
  \A i \in DOMAIN events :
    /\ events[i] = "free" =>
         /\ \E j \in 1..(i - 1) : events[j] = "copy"
         /\ \A k \in DOMAIN events : k > i => events[k] \notin {"copy", "read"}
    /\ events[i] = "decode" => \E j \in 1..(i - 1) : events[j] = "free"
    /\ events[i] \in {"copy", "read", "free", "decode"} =>
         \E j \in 1..(i - 1) : events[j] = "return_ptr"

\* A bridge call ran through all four events.
C3_Witness ==
  /\ wpc = "send"
  /\ events = << "call", "return_ptr", "copy", "free", "decode" >>

\* C4: commands are executed in the order of their successful sends: when B
\* was enqueued after A, the worker takes B only after it has sent A's
\* reply, and the foreign calls are made in enqueue order.
C4_Fifo ==
  /\ \A a \in Created, b \in Created :
       (Enqueued(a) /\ Enqueued(b) /\ Pos(a) < Pos(b) /\ Started(b)) => SendDone(a)
  /\ \A i \in DOMAIN callLog, j \in DOMAIN callLog :
       i < j => Pos(callLog[i].op) < Pos(callLog[j].op)

\* Two commands were in the channel together and the second is now in its
\* foreign call, the first answered.
C4_Witness ==
  /\ Len(enqLog) >= 2
  /\ wop = enqLog[2]
  /\ wpc = "ffi"
  /\ SendDone(enqLog[1])
  /\ Len(callLog) = 2

\* C5 (as claimed): the channel never holds more commands than the fixed
\* capacity, and a submission is only ever accepted below it.
C5_ChannelBounded == Len(chan) <= QueueCapacity

\* C6: at most one message is ever put on an operation's reply channel, the
\* message is the outcome of that operation's own arm, the caller never gets
\* another operation's outcome, and the foreign call behind it was made with
\* the operation's own kind and params_json.
C6_OneReplyOfOwnCall ==
  /\ \A id \in OpIds :
       /\ sent[id] <= 1
       /\ Len(replies[id]) <= 1
       /\ \A k \in DOMAIN replies[id] : replies[id][k].op = id
       /\ \A k \in DOMAIN got[id] : got[id][k].from = "worker" => got[id][k].op = id
  /\ wpc \in {"send", "record"} => result.op = wop
  /\ \A n \in DOMAIN callLog :
       /\ callLog[n].symbol = ops[callLog[n].op].kind
       /\ ops[callLog[n].op].kind # "GetVersion" =>
            callLog[n].params = ops[callLog[n].op].params_json
       /\ \A m \in DOMAIN callLog : callLog[m].op = callLog[n].op => m = n

\* A caller holds the reply of its own CreateWallet call while another
\* operation has been created.
C6_Witness ==
  \E id \in Created :
    /\ ops[id].kind = "CreateWallet"
    /\ sent[id] = 1
    /\ got[id] = << [from |-> "worker", op |-> id] >>
    /\ Len(ops) = 2

\* C7: with the worker scheduled and every foreign call returning, every
\* command that was enqueued is dequeued and its reply sent, and no caller
\* stays blocked on its reply for ever.
C7_EventuallyAnswered ==
  /\ \A id \in OpIds : Enqueued(id) ~> SendDone(id)
  /\ \A p \in Producers : (prod[p].pc = "await") ~> (prod[p].pc # "await")

\* Both operations of a run were enqueued, answered and received.
C7_Witness ==
  /\ Len(enqLog) = MaxOps
  /\ \A id \in OpIds : id \in recorded /\ got[id] # <<>>

\* C8 (as claimed): whenever every operation created so far has had its
\* reply delivered to its caller and no submission is in flight,
\* current_depth is 0 and total_operations is the number of completed
\* operations.
C8_MetricsWhenAllDelivered ==
  ( /\ Len(ops) >= 1
    /\ \A id \in Created : got[id] # <<>> /\ got[id][1].from = "worker"
    /\ \A p \in Producers : prod[p].pc = "idle" )
  => ( /\ current_depth = 0
       /\ total_operations = Cardinality({ id \in Created : got[id] # <<>> }) )

\* C9 (as claimed): a panic in one arm is caught, so the worker thread keeps
\* its receiver and its loop.
C9_WorkerSurvivesPanic == receiverAlive /\ wpc # "dead"

\* C10: when respond_to.send failed because the caller had dropped its
\* receiver, the operation's foreign call was still made and has returned,
\* the worker is alive and goes on to record_dequeue, and it keeps taking
\* the commands behind it.
C10_DroppedReceiverIgnored ==
  \A id \in sendFailed :
    /\ wpc # "dead"
    /\ receiverAlive
    /\ SendDone(id)
    /\ (ops[id].kind = "GetVersion" \/ ~HasInteriorNul(ops[id].params_json)) =>
         \E n \in DOMAIN callLog : callLog[n].op = id
    /\ id = wop => inFFI = 0
    /\ id \in recorded => total_operations >= 1

\* The send for a dropped receiver failed, the dequeue was recorded, and the
\* worker is executing the next command.
C10_Witness ==
  \E id \in sendFailed :
    /\ id \in recorded
    /\ wop # 0
    /\ wop # id
    /\ wpc = "ffi"

\* C11: when the foreign function returned a null pointer the bridge call
\* returns the null-pointer error without a panic, nothing is read through
\* the pointer and GoFree is not invoked; GoFree never runs on a null pointer
\* and never twice in one bridge call.
C11_NullPointerIsError ==
  /\ Count(events, "return_null") = 1 =>
       /\ events = << "call", "return_null" >>
       /\ wpc \in {"send", "record"}
       /\ result = Err(NullMessage(ops[wop].kind), wop)
  /\ Count(events, "free") <= 1
  /\ \A i \in DOMAIN events :
       events[i] = "free" => \E j \in 1..(i - 1) : events[j] = "return_ptr"
  /\ wpc # "dead"

\* A foreign function returned null and the worker holds the error to send.
C11_Witness ==
  /\ wpc = "send"
  /\ events = << "call", "return_null" >>
  /\ ~result.ok

\* The operations whose parameter string holds a NUL byte.
NulOps == { id \in Created : ops[id].kind # "GetVersion" /\ ops[id].params_json = "a\\0b" }

\* C19: when params_json holds an embedded NUL byte the bridge call returns
\* the local conversion error, and neither the foreign function nor GoFree
\* is invoked for that operation.
C19_NulParamsNoCall ==
  \A id \in NulOps :
    /\ \A n \in DOMAIN callLog : callLog[n].op # id
    /\ id = wop =>
         /\ wpc \in {"send", "record"}
         /\ result = Err("Invalid params JSON", id)
         /\ events = <<>>
         /\ inFFI = 0

\* The worker holds the conversion error of an UnlockWallet whose params
\* contain a NUL byte, after an earlier operation did reach the library.
C19_Witness ==
  /\ wop \in NulOps
  /\ wpc = "send"
  /\ result = Err("Invalid params JSON", wop)
  /\ Len(callLog) = 1

\* The envelope a finished direct call decoded, if it got as far as decoding
\* a text that parses.
Decoded ==
  /\ call.pc = "done"
  /\ Count(call.events, "decode") = 1
  /\ FromStr(call.ret.text).parsed

\* C12: decoding an envelope with success=true returns Ok with exactly the
\* envelope's data value when data is present, and an error, never a
\* defaulted or empty Ok value, when data is absent or null.
C12_SuccessNeedsData ==
  (Decoded /\ FromStr(call.ret.text).success) =>
    LET data == FromStr(call.ret.text).data IN
      IF data # <<>>
      THEN call.result = Ok(data[1], 0)
      ELSE call.result = Err("Success response missing data", 0)

\* A success envelope whose data is null was decoded into an error.
C12_Witness ==
  /\ call.pc = "done"
  /\ call.ret.text = "{\"success\":true,\"data\":null}"
  /\ call.events = << "call", "return_ptr", "copy", "free", "decode" >>
  /\ ~call.result.ok

\* C13: decoding an envelope with success=false returns Err whatever the
\* data field holds; the string is "<code>: <message>" of the envelope's
\* error object, and "UNKNOWN: Unknown error" when there is none.
C13_FailureIsErr ==
  (Decoded /\ ~FromStr(call.ret.text).success) =>
    LET error == FromStr(call.ret.text).error IN
      IF error # <<>>
      THEN call.result = Err(error[1].code \o ": " \o error[1].message, 0)
      ELSE call.result = Err("UNKNOWN: Unknown error", 0)

\* A failure envelope that carries data and no error object was decoded
\* into the generic error.
C13_Witness ==
  /\ call.pc = "done"
  /\ call.ret.text = "{\"success\":false,\"data\":{\"x\":1}}"
  /\ call.result = Err("UNKNOWN: Unknown error", 0)

\* The kinds the translator gives to the known codes, and the kinds a local
\* failure of the bridge gets.
KnownKinds == { from_ffi_error_code(c) : c \in KnownFfiCodes }

LocalKinds == { FromIoError(m).code : m \in Messages } \cup { FromJsonError(m).code : m \in Messages }

\* C14 (as claimed): a foreign code outside the known set is translated to
\* a kind that no known code and no local failure produces, so that an
\* unknown foreign code can be told apart from an internal failure.
C14_UnknownCodeDistinct ==
  (xl.pc = "done" /\ xl.origin = "ffi" /\ xl.ffi_code \notin KnownFfiCodes) =>
    xl.app.code \notin KnownKinds \cup LocalKinds

\* The load has computed its candidate list.
Searching == ld.pc \in {"search", "symbols", "ok", "err"}

\* C15: load tries the candidates strictly in list order and stops at the
\* first one that loads: every candidate in front of it was attempted and
\* failed before it, it is the library used, and nothing behind it is ever
\* attempted.
C15_FirstLoadableWins ==
  Searching =>
    /\ Len(ld.attempted) <= Len(ld.search_paths)
    /\ \A k \in DOMAIN ld.attempted : ld.attempted[k] = ld.search_paths[k]
    /\ \A k \in 1..(Len(ld.attempted) - 1) : ld.attempted[k] \notin ld.loadable
    /\ ld.lib # <<>> =>
         /\ ld.attempted # <<>>
         /\ ld.lib[1] = ld.attempted[Len(ld.attempted)]
         /\ ld.lib[1] \in ld.loadable
    /\ ld.lib = <<>> => \A k \in DOMAIN ld.attempted : ld.attempted[k] \notin ld.loadable
    /\ ld.pc = "ok" => ld.library[1].lib = ld.lib[1]

\* Of at least three candidates only the second loads: load succeeded with
\* it after the first had failed, and the third was not attempted.
C15_Witness ==
  /\ ld.pc = "ok"
  /\ Len(ld.search_paths) >= 3
  /\ ld.loadable = { ld.search_paths[2] }
  /\ ld.attempted = << ld.search_paths[1], ld.search_paths[2] >>
  /\ ld.library[1].lib = ld.search_paths[2]

\* C16 (as claimed): when every candidate failed, the error holds the
\* failure of the last candidate and every candidate path attempted, and no
\* library is returned.
C16_ErrorListsAllPaths ==
  (ld.pc = "err" /\ ld.lib = <<>>) =>
    /\ ld.library = <<>>
    /\ \A k \in DOMAIN ld.last_error : ld.last_error[k] \in Range(ld.error)
    /\ \A k \in DOMAIN ld.attempted : ld.attempted[k] \in Range(ld.error)

\* The first required symbol the library lacks, if any.
MissingSymbols == { k \in DOMAIN RequiredSymbols : RequiredSymbols[k] \notin ld.exports }

FirstMissing == CHOOSE k \in MissingSymbols : \A j \in MissingSymbols : k <= j

\* C17: load returns Ok only with every required symbol resolved; when the
\* loaded library lacks a symbol, load returns an error naming that symbol
\* and no WalletLibrary; load makes no call into the library.
C17_AllSymbolsOrError ==
  Searching =>
    /\ ld.calls = <<>>
    /\ (ld.library # <<>>) = (ld.pc = "ok")
    /\ ld.pc = "ok" =>
         /\ ld.library[1].table = RequiredSymbols
         /\ MissingSymbols = {}
    /\ (ld.lib # <<>> /\ MissingSymbols # {}) =>
         /\ ld.pc \in {"symbols", "err"}
         /\ Len(ld.resolved) < FirstMissing
         /\ ld.pc = "err" =>
              /\ ld.error[1] = RequiredSymbols[FirstMissing]
              /\ ld.error[2] = " symbol not found: "

\* A library that lacks UnlockWallet and EstimateFee was loaded and
\* rejected with the error naming UnlockWallet.
C17_Witness ==
  /\ ld.pc = "err"
  /\ ld.lib # <<>>
  /\ ld.exports = Range(RequiredSymbols) \ {"UnlockWallet", "EstimateFee"}
  /\ ld.error[1] = "UnlockWallet"
  /\ ld.library = <<>>

C20_FailedSubmitLeavesMetrics ==
  (\A p \in Producers : prod[p].pc = "idle") =>
    current_depth = Cardinality({ id \in Created : Enqueued(id) /\ id \notin recorded })

\* The operations whose submission returned "Queue channel closed".
ClosedOps == { id \in Created : got[id] = << Local("Queue channel closed") >> }

\* C21: a submission made when the worker's receiver is gone returns "Queue
\* channel closed" without waiting on its reply channel, and its operation
\* is never put in the channel, executed or answered.
C21_ClosedQueueRejects ==
  \A id \in ClosedOps :
    /\ ~receiverAlive
    /\ ~Enqueued(id)
    /\ \A k \in DOMAIN chan : chan[k] # id
    /\ \A n \in DOMAIN callLog : callLog[n].op # id
    /\ id # wop /\ id \notin recorded
    /\ sent[id] = 0
    /\ rx[id] = "dropped"
    /\ \A p \in Producers : prod[p].op = id => prod[p].pc = "idle"

\* The worker died in the call of the first operation and the second
\* submission came back with the closed-channel error.
C21_Witness ==
  /\ wpc = "dead"
  /\ 2 \in ClosedOps
  /\ Len(callLog) = 1
  /\ \A p \in Producers : prod[p].pc = "idle"

\* Number of foreign calls made for an operation, and the number of places
\* that hold it (the channel, the worker, the set of finished operations).
Calls(id) == Cardinality({ n \in DOMAIN callLog : callLog[n].op = id })

Holders(id) ==
  Count(chan, id) + (IF id = wop THEN 1 ELSE 0) + (IF id \in recorded THEN 1 ELSE 0)

\* C24 (as claimed): every enqueued operation the worker has finished caused
\* exactly one foreign call.
C24_ExactlyOneCall == \A id \in recorded : Calls(id) = 1

\* C24 (amended): every enqueued operation is held by exactly one of the
\* channel, the worker and the finished set, so it is consumed once and
\* never again; once its arm has passed the bridge entry it has caused
\* exactly one foreign call, to the function of its kind with its own
\* params_json, unless its params_json holds a NUL byte, and then none.
C24_ConsumedOnce ==
  \A id \in Created :
    /\ Holders(id) = (IF Enqueued(id) THEN 1 ELSE 0)
    /\ Count(enqLog, id) <= 1
    /\ (id \in recorded \/ (id = wop /\ wpc # "recv")) =>
         Calls(id) = (IF id \in NulOps THEN 0 ELSE 1)
    /\ Count(chan, id) = 1 => Calls(id) = 0
    /\ \A n \in DOMAIN callLog : callLog[n].op = id =>
         /\ callLog[n].symbol = LibrarySymbol(ops[id].kind)
         /\ callLog[n].params = CallParams(ops[id].kind, ops[id].params_json)

\* Two operations are finished: a CreateWallet that was called once and an
\* UnlockWallet with a NUL byte in its params that was not called.
C24_Witness ==
  /\ recorded = {1, 2}
  /\ ops[1].kind = "CreateWallet" /\ Calls(1) = 1
  /\ 2 \in NulOps /\ Calls(2) = 0

\* C28: current_depth is at least the number of operations in the channel
\* plus the one the worker holds, so the fetch_sub of record_dequeue always
\* finds it positive and it never wraps around.
C28_DepthCoversQueue ==
  /\ current_depth >= Len(chan) + (IF wop # 0 THEN 1 ELSE 0)
  /\ current_depth <= MaxOps
  /\ wpc = "record" => current_depth >= 1

\* The worker is about to run record_dequeue for one operation while the
\* other waits in the channel.
C28_Witness ==
  /\ wpc = "record"
  /\ Len(chan) = 1
  /\ current_depth = 2

\* C22 (as claimed): what record_dequeue has added to total_wait_time_ms is
\* the time the dequeued operations spent in the queue: whenever the worker
\* is between operations, total_wait_time_ms is the sum of their dequeue
\* time minus enqueue time.
C22_WaitIsQueueWait == wpc = "recv" => total_wait_time_ms = queue_wait_ms

\* A record_enqueue is between its fetch_add and the end of its loop.
InRecordEnqueue(p) == prod[p].pc \in {"peak_load", "peak_loop"}

\* C29: peak_depth never decreases; once a record_enqueue has finished its
\* compare-exchange loop peak_depth is at least the depth it computed, so
\* peak_depth >= current_depth whenever no record_enqueue is in progress;
\* total_operations and total_wait_time_ms never decrease.
C29_PeakAndTotalsMonotone ==
  /\ [](\A p \in Producers : prod[p].pc \in {"send", "await"} => peak_depth >= prod[p].depth)
  /\ []((\A p \in Producers : ~InRecordEnqueue(p)) => peak_depth >= current_depth)
  /\ [][ /\ peak_depth' >= peak_depth
         /\ total_operations' >= total_operations
         /\ total_wait_time_ms' >= total_wait_time_ms ]_vars

\* Two concurrent record_enqueue calls have finished, the peak is 2, and
\* both operations have been dequeued after calls that took time.
C29_Witness ==
  /\ peak_depth = 2
  /\ current_depth = 0
  /\ total_operations = 2
  /\ total_wait_time_ms = 2 * MaxCallMs
  /\ \A p \in Producers : ~InRecordEnqueue(p)

\* C30: when every sender has been dropped the worker still executes and
\* answers every operation left in the channel, in order, and leaves its
\* loop only when the channel is empty: at its exit every enqueued
\* operation has been executed and its reply sent.
C30_DrainBeforeExit ==
  /\ (~sendersAlive /\ chan # <<>>) => (wpc # "exited" /\ receiverAlive)
  /\ wpc = "exited" =>
       /\ ~sendersAlive
       /\ chan = <<>>
       /\ \A id \in Created : Enqueued(id) => (id \in recorded /\ Holders(id) = 1)
       /\ \A i \in DOMAIN callLog, j \in DOMAIN callLog :
            i < j => Pos(callLog[i].op) < Pos(callLog[j].op)
       /\ total_operations = Len(enqLog)

\* The senders were dropped while two operations were in the channel; the
\* worker has executed both and exited.
C30_Witness ==
  /\ wpc = "exited"
  /\ Len(enqLog) = 2
  /\ Len(callLog) = 2
  /\ sendFailed = {1, 2}

\* C23: when WalletLibrary::load() failed, or get_version() through the
\* loaded library failed at startup, the process has exited: no
\* LazyWalletQueue was registered, no queue was created and no command has
\* called or submitted anything.
C23_StartupFailsClosed ==
  ((app.loaded /\ ~app.load.ok) \/ (app.checked /\ ~app.version.ok)) =>
    /\ app.pc = "exited"
    /\ ~app.registered
    /\ lz.created = 0
    /\ lz.workers = 0
    /\ \A t \in LazyCallers : lz.pc[t] = "idle" /\ lz.calls[t] = 0 /\ lz.sent[t] = {}

\* The library was loaded and its version check failed.
C23_Witness ==
  /\ app.pc = "exited"
  /\ app.load.ok
  /\ app.checked
  /\ ~app.version.ok

\* C27: however many commands call the LazyWalletQueue for the first time
\* together, one WalletQueue is created and one worker spawned, and every
\* caller gets and submits to that queue.
C27_OneQueue ==
  /\ lz.created <= 1
  /\ lz.workers = lz.created
  /\ lz.cell # 0 => (lz.cell = 1 /\ lz.created = 1)
  /\ \A t \in LazyCallers :
       /\ lz.sent[t] \subseteq {1}
       /\ lz.pc[t] = "got" => (lz.cell = 1 /\ lz.handle[t] = 1)
       /\ lz.calls[t] > 0 => lz.sent[t] = {1}

\* Every other caller blocked on the first one's initializer, and all of them
\* have submitted.
C27_Witness ==
  /\ Cardinality(lz.waited) = MaxLazyCallers - 1
  /\ \A t \in LazyCallers : lz.sent[t] = {1}
  /\ lz.created = 1

\* The positions of the commands of caller t in a sequence of commands.
Of(seq, t, kind) == { i \in DOMAIN seq : seq[i].from = t /\ seq[i].kind = kind }

\* C25: on a cache miss load_addresses submits unlock_wallet first and
\* generate_addresses only after a successful unlock reply; after an unlock
\* error it submits nothing more, inserts nothing and returns the error.
C25_UnlockBeforeGenerate ==
  \A t \in LoadCallers :
    LET c == la.c[t] IN
    /\ c.submitted \in {<<>>, << "unlock_wallet" >>, << "unlock_wallet", "generate_addresses" >>}
    /\ c.pc \in {"unlock", "await_unlock"} => ~c.present
    /\ Len(c.submitted) = 2 => (c.unlock_response # <<>> /\ c.unlock_response[1].ok)
    /\ (c.unlock_response # <<>> /\ ~c.unlock_response[1].ok) =>
         /\ c.submitted = << "unlock_wallet" >>
         /\ c.pc = "done"
         /\ ~c.inserted
         /\ ~c.ret.ok
    /\ \A i \in Of(la.chan, t, "generate_addresses") : Of(la.log, t, "unlock_wallet") # {}
    /\ \A i \in Of(la.log, t, "generate_addresses") :
         \E j \in Of(la.log, t, "unlock_wallet") : j < i

\* Another caller's operation was executed between the unlock and the
\* generate of caller 1, whose addresses are now cached.
C25_Witness ==
  /\ la.c[1].inserted
  /\ \E i, j, k \in DOMAIN la.log :
       /\ i < j /\ j < k
       /\ la.log[i] = [from |-> 1, kind |-> "unlock_wallet"]
       /\ la.log[j].from # 1
       /\ la.log[k] = [from |-> 1, kind |-> "generate_addresses"]

\* C26: a call that finds its wallet id in the cache returns the cached
\* addresses and submits nothing; an entry is inserted only after a
\* successful generate_addresses reply; the cache mutex is not held while a
\* reply is awaited.
C26_CacheHitSubmitsNothing ==
  /\ \A t \in LoadCallers :
       LET c == la.c[t] IN
       /\ c.present =>
            /\ c.submitted = <<>>
            /\ c.pc = "done"
            /\ c.ret = [ok |-> TRUE, val |-> c.seen[1]]
            /\ ~c.inserted
       /\ c.pc \in {"insert_lock", "insert"} \/ c.inserted =>
            /\ c.ffi_response # <<>>
            /\ c.ffi_response[1].ok
            /\ c.submitted = << "unlock_wallet", "generate_addresses" >>
       /\ c.pc \in {"unlock", "await_unlock", "generate", "await_generate"} => la.lock # t
  /\ la.lock # 0 => la.c[la.lock].pc \in {"check", "insert"}
  /\ \A w \in WalletIds :
       la.cache[w] # <<>> => \E i \in DOMAIN la.log : la.log[i].kind = "generate_addresses"

\* Caller 2 found the wallet that caller 1 had cached.
C26_Witness ==
  /\ la.c[1].inserted
  /\ la.c[2].present
  /\ la.c[2].pc = "done"
  /\ la.c[2].ret.ok
  /\ la.c[2].submitted = <<>>

====
